---- MODULE Spec2Model ----
(***************************************************************************)
(* A model of CrawlOrg (main.go): list the repositories of an              *)
(* organization, clone each one under a scratch directory, resolve its     *)
(* .credignore manifest, walk its files and collect the sensitive ones.    *)
(*                                                                         *)
(* Paths, file names and file contents are sequences of one-character      *)
(* strings, so that filepath.Join, filepath.Rel and strings.Split are      *)
(* computed and not assumed.  The disk is the part of the file system      *)
(* below the process's working directory.                                  *)
(***************************************************************************)
EXTENDS Integers, Sequences, FiniteSets, TLC

(***************************************************************************)
(* Bounds of the model.                                                    *)
(***************************************************************************)
\* Longest repository listing returned by ListByOrg.
MaxRepos == 2

(***************************************************************************)
(* Names and byte strings.                                                 *)
(***************************************************************************)
NL == "\n"
Sep == "/"
Hash == "#"

\* const credIgnoreFile = ".credignore"
credIgnoreFile == <<".", "c", "r", "e", "d", "i", "g", "n", "o", "r", "e">>

\* The name of the version-control metadata directory, ".git".
gitName == <<".", "g", "i", "t">>

\* filepath.Base of the directory made by ioutil.TempDir(cwd, "tmp_").
tmpDirName == <<"t", "m", "p", "_", "1">>

\* A nil *string of the API response (no string of characters equals it).
NilStr == <<"<nil>">>

\* filepath.Join of two elements: empty elements are ignored.
Join(a, b) ==
  IF a = <<>> THEN b
  ELSE IF b = <<>> THEN a
  ELSE a \o <<Sep>> \o b

\* p lies strictly below the directory d.
Under(d, p) ==
  /\ Len(p) > Len(d) + 1
  /\ SubSeq(p, 1, Len(d)) = d
  /\ p[Len(d) + 1] = Sep

\* filepath.Rel(base, targ) for a target at or below base.
Rel(base, targ) ==
  IF targ = base THEN <<".">>
  ELSE IF Under(base, targ) THEN SubSeq(targ, Len(base) + 2, Len(targ))
  ELSE targ

\* strings.Split(s, "\n"): the pieces of s between newlines, in order.
RECURSIVE SplitFrom(_, _, _)
SplitFrom(s, i, cur) ==
  IF i > Len(s) THEN <<cur>>
  ELSE IF s[i] = NL THEN <<cur>> \o SplitFrom(s, i + 1, <<>>)
  ELSE SplitFrom(s, i + 1, Append(cur, s[i]))

Split(s) == SplitFrom(s, 1, <<>>)

\* The manifest lines that become entries: f != "" && f[0] != '#'.
IsEntry(f) == f # <<>> /\ f[1] # Hash

\* The keys added to filesToIgnore from the manifest's bytes.
ManifestEntries(ignoreData) ==
  LET ignoreList == Split(ignoreData)
  IN { ignoreList[k] : k \in { j \in 1..Len(ignoreList) : IsEntry(ignoreList[j]) } }

\* The key under which the manifest itself is added to filesToIgnore.
OwnKey(repoName) == Join(repoName, credIgnoreFile)

\* HasSensitive: the byte positions of sensitive data in fileData (nil = <<>>).
HasSensitive(fileData) == <<>>

\* A result that takes every scanned repository.
HasFiles_Always(fls) == TRUE

\* if sensitiveRepo.Files != nil
HasFiles(files) == files # <<>>

(***************************************************************************)
(* The organization: listings and remote working trees.                    *)
(***************************************************************************)
nameR == <<"r">>
nameS == <<"s">>
urlU == <<"u">>

\* The records a listing is drawn from: *repo.Name and *repo.CloneURL, each
\* possibly nil or empty.
RecordPool ==
  { [Name |-> nameR, CloneURL |-> urlU],
    [Name |-> nameS, CloneURL |-> urlU],
    [Name |-> NilStr, CloneURL |-> urlU],
    [Name |-> <<>>, CloneURL |-> urlU],
    [Name |-> nameR, CloneURL |-> NilStr],
    [Name |-> nameS, CloneURL |-> <<>>] }

\* repo.Name == nil || *repo.Name == ""
NoName(repo) == repo.Name = NilStr \/ repo.Name = <<>>

\* A validation that tests the clone URL for nil only.
NoCloneURL_NilOnly(repo) == repo.CloneURL = NilStr

\* repo.CloneURL == nil || *repo.CloneURL == ""
NoCloneURL(repo) == repo.CloneURL = NilStr \/ repo.CloneURL = <<>>

IsTarget(repo) == ~NoName(repo) /\ ~NoCloneURL(repo)

\* Repository names are unique within an organization.
UniqueNames(l) ==
  \A i, j \in 1..Len(l) :
    (i # j /\ IsTarget(l[i]) /\ IsTarget(l[j])) => l[i].Name # l[j].Name

Listings ==
  { l \in UNION { [1..n -> RecordPool] : n \in 0..MaxRepos } : UniqueNames(l) }

\* Files of the remote repositories, relative to the repository root.
fileA == <<"a">>
fileHashB == <<"#", "b">>
gitHead == Join(gitName, <<"H", "E", "A", "D">>)
nestedManifest == Join(nameR, credIgnoreFile)

fileBytes == <<"x">>
\* A file that is one run of random base64 characters.
secretBytes == <<"k", "9", "Q", "z", "T", "4", "w", "P", "m", "X", "2", "c">>
\* "a", "#b" and an empty last line.
manifestOne == <<"a", NL, "#", "b", NL>>
\* A manifest that is one comment line.
manifestTwo == <<"#", "b">>

TreePlain == (gitHead :> fileBytes) @@ (fileA :> secretBytes)

TreeManifest ==
  (gitHead :> fileBytes) @@ (credIgnoreFile :> manifestOne)
    @@ (fileA :> fileBytes) @@ (fileHashB :> fileBytes)

TreeNested ==
  (gitHead :> fileBytes) @@ (credIgnoreFile :> manifestTwo)
    @@ (fileA :> fileBytes) @@ (nestedManifest :> fileBytes)

\* The working trees (with their .git metadata) a clone can produce.
Trees == { TreePlain, TreeManifest, TreeNested }

\* The directories that hold the given paths.
DirsOf(paths) ==
  UNION { { SubSeq(p, 1, k - 1) : k \in { j \in 1..Len(p) : p[j] = Sep } } : p \in paths }

(***************************************************************************)
(* filepath.Walk visits a directory's names in lexical (byte) order,       *)
(* depth first.                                                            *)
(***************************************************************************)
\* The byte value of the characters that occur in file names.  The separator
\* ranks below every other byte: a directory's content follows it directly.
Byte ==
  ("/" :> 0) @@ ("#" :> 35) @@ ("." :> 46) @@ ("1" :> 49) @@ ("A" :> 65)
    @@ ("D" :> 68) @@ ("E" :> 69) @@ ("H" :> 72) @@ ("_" :> 95)
    @@ ("a" :> 97) @@ ("b" :> 98) @@ ("c" :> 99) @@ ("d" :> 100)
    @@ ("e" :> 101) @@ ("g" :> 103) @@ ("i" :> 105) @@ ("m" :> 109)
    @@ ("n" :> 110) @@ ("o" :> 111) @@ ("p" :> 112) @@ ("r" :> 114)
    @@ ("s" :> 115) @@ ("t" :> 116)

RECURSIVE WalksBefore(_, _)
WalksBefore(p, q) ==
  IF p = <<>> THEN q # <<>>
  ELSE IF q = <<>> THEN FALSE
  ELSE IF Head(p) = Head(q) THEN WalksBefore(Tail(p), Tail(q))
  ELSE Byte[Head(p)] < Byte[Head(q)]

RECURSIVE WalkOrder(_)
WalkOrder(S) ==
  IF S = {} THEN <<>>
  ELSE LET first == CHOOSE p \in S : \A q \in S \ {p} : WalksBefore(p, q)
       IN <<first>> \o WalkOrder(S \ {first})

\* The sequence without the paths below dir.
RECURSIVE Without(_, _)
Without(seq, dir) ==
  IF seq = <<>> THEN <<>>
  ELSE IF Under(dir, Head(seq)) THEN Without(Tail(seq), dir)
  ELSE <<Head(seq)>> \o Without(Tail(seq), dir)

(***************************************************************************)
(* State.                                                                  *)
(***************************************************************************)
VARIABLES
  pc,             \* the position of CrawlOrg
  repos,          \* the listing of the organization
  idx,            \* the position of the loop over repos
  cancelled,      \* ctx is done
  tmpMade,        \* ioutil.TempDir has made the scratch directory
  files,          \* the regular files on disk: path |-> bytes
  dirs,           \* the directories on disk
  filesToIgnore,  \* the ignore set of the current repository
  sensitiveFiles, \* sensitiveRepo.Files of the current repository
  srs,            \* the result of CrawlOrg
  todo,           \* what filepath.Walk has still to visit
  walkErr,        \* what the last call of the WalkFunc returned
  cloneFailed,    \* the positions whose clone failed
  scanned,        \* the positions whose walk ended and reached line 212
  nilInfo,        \* the positions whose WalkFunc was called without info
  sensitive,      \* the positions whose walk found a sensitive file
  manifestRead,   \* the current repository's manifest was read into the set
  gitKept,        \* removing the current repository's .git failed
  plan,           \* the regular files the current walk reaches
  ignored,        \* the files the current walk skipped as ignored
  readFailed,     \* the files the current walk failed to read
  detected,       \* the files the current walk passed to HasSensitive
  logged,         \* the messages logged so far, by their prefix
  inFlightDone    \* the operation during which ctx was cancelled is over

vars ==
  <<pc, repos, idx, cancelled, tmpMade, files, dirs, filesToIgnore,
    sensitiveFiles, srs, todo, walkErr, cloneFailed, scanned, nilInfo,
    sensitive,     manifestRead, gitKept, plan, ignored, readFailed, detected, logged,
    inFlightDone>>

(***************************************************************************)
(* The file system primitives.                                             *)
(***************************************************************************)
\* os.RemoveAll(path) on the regular files: path and all below it go.
RemoveAllFiles(fs, path) ==
  [ q \in { r \in DOMAIN fs : r # path /\ ~Under(path, r) } |-> fs[q] ]

\* os.RemoveAll(path) on the directories.
RemoveAllDirs(ds, path) == { d \in ds : d # path /\ ~Under(path, d) }

\* The files of a remote tree placed below dir.
Placed(tree, dir) ==
  [ q \in { Join(dir, r) : r \in DOMAIN tree } |->
      tree[CHOOSE r \in DOMAIN tree : Join(dir, r) = q] ]

\* The regular files and directories on disk below dir.
FilesUnder(dir) == { q \in DOMAIN files : Under(dir, q) }
DirsUnder(dir) == { d \in dirs : Under(dir, d) }

EmptyFiles == [ q \in {} |-> <<>> ]

(***************************************************************************)
(* CrawlOrg.                                                               *)
(***************************************************************************)
Init ==
  /\ pc = "list"
  /\ repos \in Listings
  /\ idx = 1
  /\ cancelled = FALSE
  /\ tmpMade = FALSE
  /\ files = EmptyFiles
  /\ dirs = {}
  /\ filesToIgnore = {}
  /\ sensitiveFiles = <<>>
  /\ srs = <<>>
  /\ todo = <<>>
  /\ walkErr = "nil"
  /\ cloneFailed = {}
  /\ scanned = {}
  /\ nilInfo = {}
  /\ sensitive = {}
  /\ manifestRead = FALSE
  /\ gitKept = FALSE
  /\ plan = {}
  /\ ignored = {}
  /\ readFailed = {}
  /\ detected = {}
  /\ logged = {}
  /\ inFlightDone = FALSE

loopVars == <<idx, filesToIgnore, sensitiveFiles, srs, todo, walkErr>>
walkGhosts == <<manifestRead, gitKept, plan, ignored, readFailed, detected>>
crawlGhosts == <<cloneFailed, scanned, nilInfo, sensitive>>

\* The current repository of the loop and its directory below the scratch
\* directory: repoDir := filepath.Join(tmpDir, repoName).
repo == repos[idx]
repoName == repo.Name
repoDir == Join(tmpDirName, repoName)

\* The context is cancelled by the caller.
Cancel ==
  /\ pc \notin {"returned", "panicked"}
  /\ ~cancelled
  /\ cancelled' = TRUE
  /\ UNCHANGED <<pc, repos, tmpMade, files, dirs, loopVars, crawlGhosts, walkGhosts>>
  /\ UNCHANGED logged
  /\ UNCHANGED inFlightDone

\* A listing error that is logged and not acted on.
AfterListFail_GoOn == "getwd"

\* Where CrawlOrg goes after a failed listing: return nil.
AfterListFail == "returned"

\* client.Repositories.ListByOrg fails: return nil.
ListFail ==
  /\ pc = "list"
  /\ pc' = AfterListFail
  /\ UNCHANGED <<repos, cancelled, tmpMade, files, dirs, loopVars, crawlGhosts, walkGhosts>>
  /\ logged' = logged \cup {"ListByOrg"}
  /\ inFlightDone' = cancelled

ListOK ==
  /\ pc = "list"
  /\ ~cancelled
  /\ pc' = "getwd"
  /\ UNCHANGED <<repos, cancelled, tmpMade, files, dirs, loopVars, crawlGhosts, walkGhosts>>
  /\ UNCHANGED logged
  /\ inFlightDone' = cancelled

\* os.Getwd fails: return nil.
GetwdFail ==
  /\ pc = "getwd"
  /\ pc' = "returned"
  /\ UNCHANGED <<repos, cancelled, tmpMade, files, dirs, loopVars, crawlGhosts, walkGhosts>>
  /\ logged' = logged \cup {"Getwd"}
  /\ inFlightDone' = cancelled

GetwdOK ==
  /\ pc = "getwd"
  /\ pc' = "tempdir"
  /\ UNCHANGED <<repos, cancelled, tmpMade, files, dirs, loopVars, crawlGhosts, walkGhosts>>
  /\ UNCHANGED logged
  /\ inFlightDone' = cancelled

\* ioutil.TempDir fails: return nil.
TempDirFail ==
  /\ pc = "tempdir"
  /\ pc' = "returned"
  /\ UNCHANGED <<repos, cancelled, tmpMade, files, dirs, loopVars, crawlGhosts, walkGhosts>>
  /\ logged' = logged \cup {"TempDir"}
  /\ inFlightDone' = cancelled

\* ioutil.TempDir makes the scratch directory; its removal is deferred.
TempDirOK ==
  /\ pc = "tempdir"
  /\ pc' = "loop"
  /\ tmpMade' = TRUE
  /\ dirs' = dirs \cup {tmpDirName}
  /\ UNCHANGED <<repos, cancelled, files, loopVars, crawlGhosts, walkGhosts>>
  /\ UNCHANGED logged
  /\ inFlightDone' = cancelled

\* os.Remove in place of os.RemoveAll: what is below the directory stays.
DeferredFiles_RemoveOnly(fs) == [ q \in { r \in DOMAIN fs : r # tmpDirName } |-> fs[q] ]

\* defer os.RemoveAll(tmpDir): runs when CrawlOrg returns or panics.
DeferredFiles(fs) == RemoveAllFiles(fs, tmpDirName)
DeferredDirs(ds) == RemoveAllDirs(ds, tmpDirName)

\* The loop is over: return srs.
LoopExit ==
  /\ pc = "loop"
  /\ idx > Len(repos)
  /\ pc' = "returned"
  /\ files' = DeferredFiles(files)
  /\ dirs' = DeferredDirs(dirs)
  /\ UNCHANGED <<repos, cancelled, tmpMade, loopVars, crawlGhosts, walkGhosts>>
  /\ UNCHANGED logged
  /\ inFlightDone' = cancelled

\* repo.Name == nil || *repo.Name == "": continue.
SkipNoName ==
  /\ pc = "loop"
  /\ idx <= Len(repos)
  /\ NoName(repo)
  /\ idx' = idx + 1
  /\ UNCHANGED <<pc, repos, cancelled, tmpMade, files, dirs, filesToIgnore,
                 sensitiveFiles, srs, todo, walkErr, crawlGhosts, walkGhosts>>
  /\ UNCHANGED logged
  /\ inFlightDone' = cancelled

\* repo.CloneURL == nil || *repo.CloneURL == "": continue.
SkipNoCloneURL ==
  /\ pc = "loop"
  /\ idx <= Len(repos)
  /\ ~NoName(repo)
  /\ NoCloneURL(repo)
  /\ idx' = idx + 1
  /\ UNCHANGED <<pc, repos, cancelled, tmpMade, files, dirs, filesToIgnore,
                 sensitiveFiles, srs, todo, walkErr, crawlGhosts, walkGhosts>>
  /\ UNCHANGED logged
  /\ inFlightDone' = cancelled

\* A failed clone that ends the crawl.
AfterCloneFail_Return == "returned"

\* Where the loop goes after a failed clone: continue.
AfterCloneFail == "loop"

\* git.PlainCloneContext fails (always, once ctx is done): log and continue.
\* The failed clone leaves nothing, or the directory with its metadata.
CloneFail ==
  /\ pc = "loop"
  /\ idx <= Len(repos)
  /\ IsTarget(repo)
  /\ \E left \in BOOLEAN :
       /\ files' = IF left THEN Placed((gitHead :> fileBytes), repoDir) @@ files
                   ELSE files
       /\ dirs' = IF left THEN dirs \cup {repoDir, Join(repoDir, gitName)}
                  ELSE dirs
  /\ cloneFailed' = cloneFailed \cup {idx}
  /\ IF AfterCloneFail = "loop"
       THEN pc' = "loop" /\ idx' = idx + 1
       ELSE pc' = AfterCloneFail /\ idx' = idx
  /\ UNCHANGED <<repos, cancelled, tmpMade, filesToIgnore, sensitiveFiles,
                 srs, todo, walkErr, scanned, nilInfo, sensitive, walkGhosts>>
  /\ logged' = logged \cup {"PlainCloneContext"}
  /\ inFlightDone' = cancelled

\* git.PlainCloneContext succeeds: the working tree and .git are on disk.
CloneOK ==
  /\ pc = "loop"
  /\ idx <= Len(repos)
  /\ IsTarget(repo)
  /\ ~cancelled
  /\ \E tree \in Trees :
       /\ files' = Placed(tree, repoDir) @@ files
       /\ dirs' = dirs \cup {repoDir}
                    \cup { Join(repoDir, d) : d \in DirsOf(DOMAIN tree) }
  /\ pc' = "rmgit"
  /\ manifestRead' = FALSE
  /\ gitKept' = FALSE
  /\ plan' = {}
  /\ ignored' = {}
  /\ readFailed' = {}
  /\ detected' = {}
  /\ UNCHANGED <<repos, cancelled, tmpMade, loopVars, crawlGhosts>>
  /\ UNCHANGED logged
  /\ inFlightDone' = cancelled

\* gitDir := filepath.Join(tmpDir, repoName, ".git")
gitDir == Join(repoDir, gitName)

\* os.RemoveAll(gitDir) succeeds.
RemoveGitOK ==
  /\ pc = "rmgit"
  /\ files' = RemoveAllFiles(files, gitDir)
  /\ dirs' = RemoveAllDirs(dirs, gitDir)
  /\ pc' = "ignore"
  /\ UNCHANGED <<repos, cancelled, tmpMade, loopVars, crawlGhosts, walkGhosts>>
  /\ UNCHANGED logged
  /\ inFlightDone' = cancelled

\* os.RemoveAll(gitDir) fails: the error is logged, the metadata stays.
RemoveGitFail ==
  /\ pc = "rmgit"
  /\ gitKept' = TRUE
  /\ pc' = "ignore"
  /\ UNCHANGED <<repos, cancelled, tmpMade, files, dirs, loopVars, crawlGhosts,
                 manifestRead, plan, ignored, readFailed, detected>>
  /\ logged' = logged \cup {"RemoveAll .git"}
  /\ inFlightDone' = cancelled

\* ignoreFile := filepath.Join(tmpDir, repoName, credIgnoreFile)
ignoreFile == Join(repoDir, credIgnoreFile)

\* A map made once, before the loop, and kept from repository to repository.
NewIgnoreSet_Kept == filesToIgnore

\* filesToIgnore := make(map[string]struct{})
NewIgnoreSet == {}

\* os.Stat(ignoreFile) fails, there is no manifest: the set stays empty.
IgnoreAbsent ==
  /\ pc = "ignore"
  /\ ignoreFile \notin DOMAIN files
  /\ filesToIgnore' = NewIgnoreSet
  /\ pc' = "walkroot"
  /\ UNCHANGED <<repos, idx, cancelled, tmpMade, files, dirs, sensitiveFiles,
                 srs, todo, walkErr, crawlGhosts, walkGhosts>>
  /\ UNCHANGED logged
  /\ inFlightDone' = cancelled

\* The manifest exists but ioutil.ReadFile fails: only its own key is added.
IgnoreReadFail ==
  /\ pc = "ignore"
  /\ ignoreFile \in DOMAIN files
  /\ filesToIgnore' = NewIgnoreSet \cup {OwnKey(repoName)}
  /\ pc' = "walkroot"
  /\ UNCHANGED <<repos, idx, cancelled, tmpMade, files, dirs, sensitiveFiles,
                 srs, todo, walkErr, crawlGhosts, walkGhosts>>
  /\ UNCHANGED logged
  /\ inFlightDone' = cancelled

\* The manifest exists and is read: its own key and its entries are added.
IgnoreReadOK ==
  /\ pc = "ignore"
  /\ ignoreFile \in DOMAIN files
  /\ filesToIgnore' = NewIgnoreSet \cup {OwnKey(repoName)}
                        \cup ManifestEntries(files[ignoreFile])
  /\ manifestRead' = TRUE
  /\ pc' = "walkroot"
  /\ UNCHANGED <<repos, idx, cancelled, tmpMade, files, dirs, sensitiveFiles,
                 srs, todo, walkErr, crawlGhosts, gitKept, plan, ignored,
                 readFailed, detected>>
  /\ logged' = logged \cup {"Found"}
  /\ inFlightDone' = cancelled

\* A panic unwinds CrawlOrg: the deferred removal runs, nothing is returned.
Panic ==
  /\ pc' = "panicked"
  /\ files' = DeferredFiles(files)
  /\ dirs' = DeferredDirs(dirs)

\* filepath.Walk: os.Lstat(root) fails, so f(root, nil, err) is called and
\* info.IsDir() dereferences the nil info.
WalkRootErr ==
  /\ pc = "walkroot"
  /\ nilInfo' = nilInfo \cup {idx}
  /\ sensitiveFiles' = <<>>
  /\ Panic
  /\ UNCHANGED <<repos, idx, cancelled, tmpMade, filesToIgnore, srs, todo,
                 walkErr, cloneFailed, scanned, sensitive, walkGhosts>>
  /\ UNCHANGED logged
  /\ inFlightDone' = cancelled

\* sensitiveRepo := SensitiveRepo{Name: repoName}; filepath.Walk starts at
\* the root, then goes through all that is below it.
WalkRootOK ==
  /\ pc = "walkroot"
  /\ sensitiveFiles' = <<>>
  /\ todo' = <<repoDir>> \o WalkOrder(FilesUnder(repoDir) \cup DirsUnder(repoDir))
  /\ walkErr' = "nil"
  /\ plan' = FilesUnder(repoDir)
  /\ pc' = "walk"
  /\ UNCHANGED <<repos, idx, cancelled, tmpMade, files, dirs, filesToIgnore,
                 srs, crawlGhosts, manifestRead, gitKept, ignored, readFailed,
                 detected>>
  /\ UNCHANGED logged
  /\ inFlightDone' = cancelled

\* The entry filepath.Walk visits next, and its path relative to the
\* repository: relPath, err := filepath.Rel(repoDir, path).
path == Head(todo)

\* The ignore check done on the untrimmed path.
relPath_Untrimmed == path

relPath == Rel(repoDir, path)

Walking == pc = "walk" /\ todo # <<>> /\ walkErr = "nil"

\* lstat of an entry fails: f(path, nil, err) dereferences the nil info.
WalkLstatErr ==
  /\ Walking
  /\ path # repoDir
  /\ nilInfo' = nilInfo \cup {idx}
  /\ Panic
  /\ UNCHANGED <<repos, idx, cancelled, tmpMade, filesToIgnore, sensitiveFiles,
                 srs, todo, walkErr, cloneFailed, scanned, sensitive, walkGhosts>>
  /\ UNCHANGED logged
  /\ inFlightDone' = cancelled

\* A directory: f returns nil (info.IsDir()) and the walk goes into it.
WalkDir ==
  /\ Walking
  /\ path \in dirs
  /\ todo' = Tail(todo)
  /\ UNCHANGED <<pc, repos, idx, cancelled, tmpMade, files, dirs, filesToIgnore,
                 sensitiveFiles, srs, walkErr, crawlGhosts, walkGhosts>>
  /\ UNCHANGED logged
  /\ inFlightDone' = cancelled

\* A directory whose names cannot be read: f(path, info, err) returns nil
\* (info.IsDir()), and the walk leaves out what is below it.
WalkDirReadErr ==
  /\ Walking
  /\ path \in dirs
  /\ todo' = Without(Tail(todo), path)
  /\ plan' = { q \in plan : ~Under(path, q) }
  /\ UNCHANGED <<pc, repos, idx, cancelled, tmpMade, files, dirs, filesToIgnore,
                 sensitiveFiles, srs, walkErr, crawlGhosts, manifestRead,
                 gitKept, ignored, readFailed, detected>>
  /\ UNCHANGED logged
  /\ inFlightDone' = cancelled

\* if _, ok := filesToIgnore[relPath]; ok { return nil }
WalkIgnored ==
  /\ Walking
  /\ path \in DOMAIN files
  /\ relPath \in filesToIgnore
  /\ ignored' = ignored \cup {path}
  /\ todo' = Tail(todo)
  /\ UNCHANGED <<pc, repos, idx, cancelled, tmpMade, files, dirs, filesToIgnore,
                 sensitiveFiles, srs, walkErr, crawlGhosts, manifestRead,
                 gitKept, plan, readFailed, detected>>
  /\ UNCHANGED logged
  /\ inFlightDone' = cancelled

\* A WalkFunc that hands the read error back to filepath.Walk.
ReadErrReturn_Err == "err"

\* What f returns when ioutil.ReadFile fails: nil.
ReadErrReturn == "nil"

\* ioutil.ReadFile(path) fails: the error is logged and f returns.
WalkReadErr ==
  /\ Walking
  /\ path \in DOMAIN files
  /\ relPath \notin filesToIgnore
  /\ readFailed' = readFailed \cup {path}
  /\ walkErr' = ReadErrReturn
  /\ todo' = Tail(todo)
  /\ UNCHANGED <<pc, repos, idx, cancelled, tmpMade, files, dirs, filesToIgnore,
                 sensitiveFiles, srs, crawlGhosts, manifestRead, gitKept, plan,
                 ignored, detected>>
  /\ logged' = logged \cup {"ReadFile"}
  /\ inFlightDone' = cancelled

\* The file is read and given to HasSensitive; a file with positions is
\* appended to sensitiveRepo.Files.
WalkScan ==
  /\ Walking
  /\ path \in DOMAIN files
  /\ relPath \notin filesToIgnore
  /\ LET fileData == files[path]
         positions == HasSensitive(fileData)
     IN sensitiveFiles' =
          IF positions # <<>>
            THEN Append(sensitiveFiles, [Path |-> relPath, Positions |-> positions])
            ELSE sensitiveFiles
  /\ sensitive' = IF HasSensitive(files[path]) # <<>>
                    THEN sensitive \cup {idx}
                    ELSE sensitive
  /\ detected' = detected \cup {path}
  /\ todo' = Tail(todo)
  /\ UNCHANGED <<pc, repos, idx, cancelled, tmpMade, files, dirs, filesToIgnore,
                 srs, walkErr, cloneFailed, scanned, nilInfo, manifestRead,
                 gitKept, plan, ignored, readFailed>>
  /\ UNCHANGED logged
  /\ inFlightDone' = cancelled

\* filepath.Walk is over.  An error it returned is logged and the loop
\* continues; otherwise a repository with sensitive files is added to the
\* result.
WalkDone ==
  /\ pc = "walk"
  /\ (todo = <<>> \/ walkErr # "nil")
  /\ IF walkErr # "nil"
       THEN /\ logged' = logged \cup {"Walk"}
            /\ UNCHANGED <<srs, scanned>>
       ELSE /\ srs' = IF HasFiles(sensitiveFiles)
                        THEN Append(srs, [Name |-> repoName, Files |-> sensitiveFiles])
                        ELSE srs
            /\ scanned' = scanned \cup {idx}
            /\ UNCHANGED logged
  /\ pc' = "loop"
  /\ idx' = idx + 1
  /\ UNCHANGED <<repos, cancelled, tmpMade, files, dirs, filesToIgnore,
                 sensitiveFiles, todo, walkErr, cloneFailed, nilInfo, sensitive,
                 walkGhosts>>
  /\ inFlightDone' = cancelled

Next ==
  \/ Cancel
  \/ ListFail \/ ListOK
  \/ GetwdFail \/ GetwdOK
  \/ TempDirFail \/ TempDirOK
  \/ LoopExit
  \/ SkipNoName \/ SkipNoCloneURL
  \/ CloneFail \/ CloneOK
  \/ RemoveGitOK \/ RemoveGitFail
  \/ IgnoreAbsent \/ IgnoreReadOK \/ IgnoreReadFail
  \/ WalkRootErr \/ WalkRootOK
  \/ WalkLstatErr \/ WalkDir \/ WalkDirReadErr
  \/ WalkIgnored \/ WalkReadErr \/ WalkScan
  \/ WalkDone

Spec == Init /\ [][Next]_vars

TypeOK ==
  /\ pc \in {"list", "getwd", "tempdir", "loop", "rmgit", "ignore", "walkroot",
             "walk", "returned", "panicked"}
  /\ idx \in 1..(Len(repos) + 1)
  /\ walkErr \in {"nil", "err"}

(***************************************************************************)
(* Properties.                                                             *)
(***************************************************************************)
\* The repository at position i has a report in the result.
Reported(i) == \E k \in 1..Len(srs) : srs[k].Name = repos[i].Name

\* The directory of the repository at position i below the scratch directory.
RepoDirOf(i) == Join(tmpDirName, repos[i].Name)

\* The entries the manifest on disk asks for: its lines that are not empty
\* and do not begin with '#', as paths below the current repository.
ManifestPaths ==
  IF ignoreFile \in DOMAIN files
    THEN { Join(repoDir, e) : e \in ManifestEntries(files[ignoreFile]) }
    ELSE {}

\* C1: failure isolation.  When CrawlOrg returns after the loop, the loop has
\* gone over the whole listing whatever clones failed; every target whose
\* clone did not fail was scanned, and is in the result if it has a sensitive
\* file; no repository whose clone failed is in the result.
C1_FailureIsolation ==
  (pc = "returned" /\ tmpMade) =>
    /\ idx = Len(repos) + 1
    /\ \A i \in 1..Len(repos) :
         /\ (IsTarget(repos[i]) /\ i \notin cloneFailed) => i \in scanned
         /\ (i \in scanned /\ i \in sensitive) => Reported(i)
         /\ i \in cloneFailed => ~Reported(i)

\* C1 witness: a clone failed and a later repository was still scanned.
C1_Witness ==
  /\ pc = "returned"
  /\ \E i \in cloneFailed : \E j \in scanned : i < j

\* C2: a walk error reported to the WalkFunc without file information never
\* aborts the crawl.
C2_WalkErrorNeverAborts == (nilInfo # {}) => pc # "panicked"

\* C3: once the processing of a repository has ended its working directory
\* is gone, so at most one working tree is on disk at any moment.
C3_ScratchPerRepository ==
  /\ \A i \in 1..Len(repos) :
       (IsTarget(repos[i]) /\ i < idx) => RepoDirOf(i) \notin dirs
  /\ Cardinality({ d \in dirs : \E i \in 1..Len(repos) :
                     IsTarget(repos[i]) /\ d = RepoDirOf(i) }) <= 1

C5_ManifestReserved ==
  (pc = "walk") =>
    /\ credIgnoreFile \in filesToIgnore
    /\ ignoreFile \notin detected

\* C6 as stated: no file whose relative path equals an entry line of the
\* repository's manifest is given to HasSensitive.
C6_ExclusionSound_AsStated ==
  (pc = "walk") => (ManifestPaths \cap detected = {})

\* C6 amended: when the manifest was read, no file whose relative path
\* equals one of its entry lines is given to HasSensitive or named in
\* sensitiveRepo.Files.
C6_ExclusionSound ==
  (pc = "walk" /\ manifestRead) =>
    /\ ManifestPaths \cap detected = {}
    /\ \A k \in 1..Len(sensitiveFiles) :
         Join(repoDir, sensitiveFiles[k].Path) \notin ManifestPaths

\* C6 witness: a walk is over in which a file named by the manifest was
\* on disk and skipped.
C6_Witness ==
  /\ pc = "walk"
  /\ todo = <<>>
  /\ manifestRead
  /\ \E q \in ManifestPaths : q \in plan /\ q \in ignored

\* C7: a file skipped by the ignore check is the manifest itself or is named
\* by an entry line of the manifest.
C7_NoOverExclusion ==
  (pc = "walk") => (ignored \subseteq ({ignoreFile} \cup ManifestPaths))

\* C8: every report in the result has a sensitive file, and a scanned
\* repository is in the result exactly if its walk found one.
C8_ReportMembership ==
  /\ \A k \in 1..Len(srs) : srs[k].Files # <<>>
  /\ \A i \in scanned : Reported(i) <=> i \in sensitive

\* C8 witness: a scanned repository without sensitive files is not in the
\* returned result.
C8_Witness ==
  /\ pc = "returned"
  /\ \E i \in scanned : i \notin sensitive /\ ~Reported(i)

\* C9: no file below the .git directory is read and given to HasSensitive.
C9_NoMetadataScanned ==
  (pc = "walk") => (\A q \in detected : ~Under(gitDir, q))

\* C10: a failed file read never stops the walk: the WalkFunc returns nil,
\* filepath.Walk reports no error, the file has no entry in
\* sensitiveRepo.Files, and at the end of the walk every file it reaches was
\* skipped as ignored, failed to read, or was given to HasSensitive.
C10_FileReadIsolation ==
  /\ walkErr = "nil"
  /\ "Walk" \notin logged
  /\ (pc = "walk") =>
       /\ readFailed \cap detected = {}
       /\ \A k \in 1..Len(sensitiveFiles) :
            Join(repoDir, sensitiveFiles[k].Path) \notin readFailed
       /\ (todo = <<>>) => (plan = ignored \cup readFailed \cup detected)

\* C10 witness: a walk is over in which a read failed and a file visited
\* after it was given to HasSensitive.
C10_Witness ==
  /\ pc = "walk"
  /\ todo = <<>>
  /\ \E q \in readFailed : \E r \in detected : WalksBefore(q, r)


\* C11: once the listing has failed, CrawlOrg has returned nil: no scratch
\* directory was made, nothing is on disk, and no repository was cloned,
\* walked or reported.
C11_ListingFailureFatal ==
  ("ListByOrg" \in logged) =>
    /\ pc = "returned"
    /\ ~tmpMade
    /\ dirs = {}
    /\ DOMAIN files = {}
    /\ cloneFailed = {}
    /\ scanned = {}
    /\ nilInfo = {}
    /\ detected = {}
    /\ srs = <<>>

\* C11 witness: the listing of an organization with a target repository
\* failed and CrawlOrg has returned.
C11_Witness ==
  /\ "ListByOrg" \in logged
  /\ pc = "returned"
  /\ \E i \in 1..Len(repos) : IsTarget(repos[i])


\* C12: once ctx is cancelled and the operation then in flight is over, no
\* clone succeeds and no further file is read or given to HasSensitive.
C12_CancelObserved ==
  [][inFlightDone =>
       /\ detected' = detected
       /\ readFailed' = readFailed
       /\ pc' # "rmgit"]_vars


\* A listed record with a name and a clone URL, both present and not empty.
Usable(r) ==
  /\ r.Name \notin {NilStr, <<>>}
  /\ r.CloneURL \notin {NilStr, <<>>}

\* The positions of the listing whose processing is over.
Processed == cloneFailed \cup scanned

\* C13: a record without a usable name or clone URL is never cloned, walked
\* or the origin of a report, and the loop goes past it: when CrawlOrg
\* returns after the loop, every usable record was cloned or tried.
C13_NonTargetsSkipped ==
  /\ \A i \in 1..Len(repos) :
       ~Usable(repos[i]) =>
         /\ i \notin cloneFailed
         /\ i \notin scanned
         /\ i \notin nilInfo
         /\ ~(idx = i /\ pc \in {"rmgit", "ignore", "walkroot", "walk"})
  /\ \A k \in 1..Len(srs) :
       \E i \in scanned : Usable(repos[i]) /\ repos[i].Name = srs[k].Name
  /\ (pc = "returned" /\ tmpMade) =>
       \A i \in 1..Len(repos) : Usable(repos[i]) => i \in Processed

\* C13 witness: CrawlOrg has returned, and a usable record that follows an
\* unusable one was scanned.
C13_Witness ==
  /\ pc = "returned"
  /\ \E i, j \in 1..Len(repos) :
       i < j /\ ~Usable(repos[i]) /\ Usable(repos[j]) /\ j \in scanned


\* C14: when the manifest exists and reading it failed, the repository is
\* still walked, the ignore set holds none of the manifest's entries, and no
\* regular file other than the manifest is skipped by the ignore check: at
\* the end of the walk each of them was given to HasSensitive (or failed to
\* read).
C14_ManifestReadFailure ==
  (pc = "walk" /\ ignoreFile \in DOMAIN files /\ ~manifestRead) =>
    /\ filesToIgnore \cap ManifestEntries(files[ignoreFile]) = {}
    /\ ignored \subseteq {ignoreFile}
    /\ (todo = <<>>) => ((plan \ {ignoreFile}) \subseteq (detected \cup readFailed))


\* The file contents that are a pure random base64 run.
RandomRuns == {secretBytes}

\* The positions lie within the bytes: 0 <= Start < End <= len(fileData).
SpansWithin(positions, fileData) ==
  \A k \in 1..Len(positions) :
    /\ 0 <= positions[k].Start
    /\ positions[k].Start < positions[k].End
    /\ positions[k].End <= Len(fileData)

\* C15: HasSensitive returns at least one span, within the run, for a file
\* that is a random base64 run, so that such a file given to HasSensitive
\* has an entry in sensitiveRepo.Files.
C15_DetectionCoverage ==
  (pc = "walk") =>
    \A q \in detected :
      (files[q] \in RandomRuns) =>
        /\ HasSensitive(files[q]) # <<>>
        /\ SpansWithin(HasSensitive(files[q]), files[q])
        /\ \E k \in 1..Len(sensitiveFiles) :
             Join(repoDir, sensitiveFiles[k].Path) = q


\* The keys that the current repository itself puts in its ignore set: the
\* key of its manifest and the entries of its manifest.
OwnKeys ==
  IF ignoreFile \in DOMAIN files
    THEN {OwnKey(repoName)} \cup ManifestEntries(files[ignoreFile])
    ELSE {}

\* C17: the ignore set of a walk holds only keys that come from the
\* repository being walked, and only files named by those keys are skipped:
\* nothing is carried over from the manifest of another repository.
C17_IgnoreSetScoped ==
  (pc = "walk") =>
    /\ filesToIgnore \subseteq OwnKeys
    /\ ignored \subseteq { Join(repoDir, k) : k \in OwnKeys }

\* C17 witness: the manifest of an earlier repository was read and names a
\* path; the current repository has no manifest, and its file at that path
\* was given to HasSensitive.
C17_Witness ==
  /\ pc = "walk"
  /\ "Found" \in logged
  /\ ignoreFile \notin DOMAIN files
  /\ \E i \in scanned :
       LET manifest == Join(RepoDirOf(i), credIgnoreFile)
       IN /\ i < idx
          /\ manifest \in DOMAIN files
          /\ \E e \in ManifestEntries(files[manifest]) :
               Join(repoDir, e) \in detected

====
